---- MODULE Spec2Model ----
(***************************************************************************)
(* Windowed feature extraction for wrist stress detection.                 *)
(*                                                                         *)
(*   training path : extract_window_features  ("model CatBoost.py")        *)
(*   inference path: extract_features_window, predict_stress  (api.py)     *)
(*                                                                         *)
(* Samples are integers (exactly representable floats) or the two          *)
(* non-finite values NaN and Inf.  Feature values are exact: a rational,   *)
(* a rational times the square root of a rational, NaN, or an application  *)
(* of Welch band power that is left symbolic.                              *)
(***************************************************************************)
EXTENDS Integers, Sequences, FiniteSets, TLC

(***************************************************************************)
(* Exact arithmetic                                                        *)
(***************************************************************************)
Abs(a) == IF a < 0 THEN 0 - a ELSE a

Sgn(a) == IF a < 0 THEN 0 - 1 ELSE IF a = 0 THEN 0 ELSE 1

RECURSIVE Gcd(_, _)
Gcd(a, b) == IF b = 0 THEN a ELSE Gcd(b, a % b)

\* the rational n/d in lowest terms, d > 0
Rat(n, d) ==
    LET g == Gcd(Abs(n), Abs(d))
        s == IF d < 0 THEN 0 - 1 ELSE 1
    IN  [k |-> "rat", n |-> (s * n) \div g, d |-> (s * d) \div g]

Zero == Rat(0, 1)

NaNv == [k |-> "nan"]

\* sum and difference over the least common denominator
RAdd(p, q) ==
    LET g == Gcd(p.d, q.d)
    IN  Rat(p.n * (q.d \div g) + q.n * (p.d \div g), (p.d \div g) * q.d)

RSub(p, q) == RAdd(p, Rat(0 - q.n, q.d))

\* product, cancelling across before multiplying
RMul(p, q) ==
    LET g1 == Gcd(Abs(p.n), q.d)
        g2 == Gcd(Abs(q.n), p.d)
    IN  Rat((p.n \div g1) * (q.n \div g2), (p.d \div g2) * (q.d \div g1))

RDiv(p, q) == RMul(p, Rat(q.d, q.n))

RLt(p, q) == p.n * q.d < q.n * p.d

\* c * sqrt(q), for rationals c and q >= 0; exactly 0 is the rational 0
RootVal(c, q) ==
    IF c.n = 0 \/ q.n = 0 THEN Zero
    ELSE [k |-> "root", c |-> c, q |-> q]

\* the square of a numeric value, as a rational
Square(v) == IF v.k = "rat" THEN RMul(v, v) ELSE RMul(RMul(v.c, v.c), v.q)

SignOf(v) == IF v.k = "rat" THEN Sgn(v.n) ELSE Sgn(v.c.n)

\* numeric equality of two feature values (NaN equals nothing, as in IEEE)
NumEq(v, w) ==
    /\ v.k \in {"rat", "root"}
    /\ w.k \in {"rat", "root"}
    /\ SignOf(v) = SignOf(w)
    /\ Square(v) = Square(w)

\* v < the rational r, for a numeric value v
NumLt(v, r) ==
    IF v.k = "rat" THEN RLt(v, r)
    ELSE IF SignOf(v) < 0 THEN (r.n >= 0 \/ RLt(RMul(r, r), Square(v)))
    ELSE (r.n > 0 /\ RLt(Square(v), RMul(r, r)))

NumGt(v, r) ==
    IF v.k = "rat" THEN RLt(r, v)
    ELSE IF SignOf(v) > 0 THEN (r.n <= 0 \/ RLt(RMul(r, r), Square(v)))
    ELSE (r.n < 0 /\ RLt(Square(v), RMul(r, r)))

(***************************************************************************)
(* Samples and arrays                                                      *)
(***************************************************************************)
Fin(v) == [k |-> "fin", v |-> v]

NaN == [k |-> "nan", v |-> 0]

Inf == [k |-> "inf", v |-> 1]

\* the function f on 1..n as an explicit tuple
Tup(f) == f \o << >>

\* the numbers of an array of finite samples
Nums(arr) == Tup([i \in 1..Len(arr) |-> arr[i].v])

\* Python slice a[lo:hi] of a 0-indexed array, 0 <= lo
Slice(a, lo, hi) ==
    LET h == IF hi < Len(a) THEN hi ELSE Len(a)
    IN  IF lo >= h THEN << >> ELSE Tup([i \in 1..(h - lo) |-> a[lo + i]])

\* sum of f[lo..hi] by halving, so that the depth stays logarithmic
RECURSIVE SumRange(_, _, _)
SumRange(f, lo, hi) ==
    IF lo > hi THEN 0
    ELSE IF lo = hi THEN f[lo]
    ELSE LET mid == (lo + hi) \div 2
         IN  SumRange(f, lo, mid) + SumRange(f, mid + 1, hi)

Sum(x) == SumRange(x, 1, Len(x))

MinOf(S) == CHOOSE m \in S : \A o \in S : m <= o

MaxOf(S) == CHOOSE m \in S : \A o \in S : m >= o

Range(x) == {x[i] : i \in 1..Len(x)}

\* np.diff
diff(x) ==
    IF Len(x) < 2 THEN << >> ELSE Tup([i \in 1..(Len(x) - 1) |-> x[i + 1] - x[i]])

(***************************************************************************)
(* Library semantics: numpy, pandas, scipy.stats                           *)
(*                                                                         *)
(* For an integer array x of length n with sum S, g = gcd(n, |S|),         *)
(* a = n/g, b = S/g, the deviations from the mean are d[i]/a with          *)
(* d[i] = a*x[i] - b, and A2, A3, A4 are the sums of d^2, d^3, d^4.        *)
(***************************************************************************)
Scale(x) == Len(x) \div Gcd(Len(x), Abs(Sum(x)))

Dev(x) ==
    LET a == Scale(x)
        b == Sum(x) \div Gcd(Len(x), Abs(Sum(x)))
    IN  Tup([i \in 1..Len(x) |-> a * x[i] - b])

A2(x) == LET d == Dev(x) IN Sum(Tup([i \in 1..Len(x) |-> d[i] * d[i]]))

A3(x) == LET d == Dev(x) IN Sum(Tup([i \in 1..Len(x) |-> d[i] * d[i] * d[i]]))

A4(x) == LET d == Dev(x) IN Sum(Tup([i \in 1..Len(x) |-> d[i] * d[i] * d[i] * d[i]]))

\* np.mean, pd.Series.mean: NaN on an empty array
np_mean(x) == IF Len(x) = 0 THEN NaNv ELSE Rat(Sum(x), Len(x))

\* np.std (ddof = 0): sqrt(sum((x - mean)^2) / n)
np_std(x) ==
    IF Len(x) = 0 THEN NaNv
    ELSE RootVal(Rat(1, Scale(x)), Rat(A2(x), Len(x)))

\* pd.Series.std (ddof = 1): sqrt(sum((x - mean)^2) / (n - 1)), NaN for n < 2
pd_std(x) ==
    IF Len(x) < 2 THEN NaNv
    ELSE RootVal(Rat(1, Scale(x)), Rat(A2(x), Len(x) - 1))

np_min(x) == IF Len(x) = 0 THEN NaNv ELSE Rat(MinOf(Range(x)), 1)

np_max(x) == IF Len(x) = 0 THEN NaNv ELSE Rat(MaxOf(Range(x)), 1)

\* the k-th smallest element, k in 1..n
Kth(x, k) ==
    CHOOSE v \in Range(x) :
        /\ Cardinality({i \in 1..Len(x) : x[i] < v}) < k
        /\ k <= Cardinality({i \in 1..Len(x) : x[i] <= v})

\* np.median, pd.Series.median
np_median(x) ==
    LET n == Len(x)
    IN  IF n = 0 THEN NaNv
        ELSE IF n % 2 = 1 THEN Rat(Kth(x, (n + 1) \div 2), 1)
        ELSE Rat(Kth(x, n \div 2) + Kth(x, n \div 2 + 1), 2)

\* scipy.stats.skew (bias=True): m3 / m2^1.5 = (A3/A2) * sqrt(n/A2)
sp_skew(x) ==
    IF Len(x) = 0 \/ A2(x) = 0 THEN NaNv
    ELSE RootVal(Rat(A3(x), A2(x)), Rat(Len(x), A2(x)))

\* scipy.stats.kurtosis (fisher=True, bias=True): m4 / m2^2 - 3
sp_kurtosis(x) ==
    IF Len(x) = 0 \/ A2(x) = 0 THEN NaNv
    ELSE RSub(RMul(Rat(Len(x), A2(x)), Rat(A4(x), A2(x))), Rat(3, 1))

\* pd.Series.skew (nanskew): n*sqrt(n-1)/(n-2) * M3/M2^1.5 over the sums
\* M2, M3 of the deviations; NaN for n < 3, 0 when M2 = 0
pd_skew(x) ==
    LET n == Len(x)
    IN  IF n < 3 THEN NaNv
        ELSE IF A2(x) = 0 THEN Zero
        ELSE RootVal(RMul(Rat(n, n - 2), Rat(A3(x), A2(x))), Rat(n - 1, A2(x)))

\* pd.Series.kurt (nankurt):
\*   n(n+1)(n-1) M4 / ((n-2)(n-3) M2^2) - 3(n-1)^2 / ((n-2)(n-3));
\* NaN for n < 4, 0 when M2 = 0
pd_kurt(x) ==
    LET n == Len(x)
    IN  IF n < 4 THEN NaNv
        ELSE IF A2(x) = 0 THEN Zero
        ELSE RSub(RMul(RMul(Rat(n * (n + 1) * (n - 1), (n - 2) * (n - 3)),
                            Rat(A4(x), A2(x))),
                       Rat(1, A2(x))),
                  Rat(3 * (n - 1) * (n - 1), (n - 2) * (n - 3)))

(***************************************************************************)
(* Library semantics: scipy.signal.find_peaks(x, distance=...)             *)
(***************************************************************************)
\* last index of the run of equal samples that starts at l
RunEnd(x, l) ==
    IF l = Len(x) THEN l
    ELSE IF x[l + 1] # x[l] THEN l
    ELSE MinOf({r \in l..Len(x) : r = Len(x) \/ x[r + 1] # x[l]})

\* _local_maxima_1d: the midpoint of every plateau that is strictly higher
\* than both neighbours; the first and the last sample are never peaks
LocalMaxima(x) ==
    {(l + RunEnd(x, l)) \div 2 :
        l \in {i \in 2..(Len(x) - 1) :
                 /\ x[i - 1] < x[i]
                 /\ RunEnd(x, i) < Len(x)
                 /\ x[RunEnd(x, i) + 1] < x[i]}}

\* the candidate handled next by _select_by_peak_distance: the highest,
\* and among equally high ones the rightmost
Highest(x, cand) ==
    CHOOSE j \in cand :
        \A o \in cand : x[o] < x[j] \/ (x[o] = x[j] /\ o <= j)

\* _select_by_peak_distance: in order of decreasing height keep a peak and
\* drop every peak closer to it than distance
RECURSIVE SelectByDistance(_, _, _, _)
SelectByDistance(x, cand, kept, distance) ==
    IF cand = {} THEN kept
    ELSE LET j == Highest(x, cand)
         IN  SelectByDistance(x, {o \in cand : Abs(o - j) >= distance},
                              kept \cup {j}, distance)

\* the set as an increasing sequence
RECURSIVE SortedSeq(_)
SortedSeq(S) ==
    IF S = {} THEN << >>
    ELSE LET m == MaxOf(S) IN Append(SortedSeq(S \ {m}), m)

\* peak indices (0-based, as numpy reports them), increasing
find_peaks(x, distance) ==
    LET sel == SelectByDistance(x, LocalMaxima(x), {}, distance)
    IN  SortedSeq({p - 1 : p \in sel})

(***************************************************************************)
(* bandpower: Welch PSD with nperseg = len(arr), then trapezoid over the   *)
(* bins low <= f <= high.  The bins are k*fs/n, k = 0..n div 2.  No bin    *)
(* gives 0.0 by the early return, one bin gives 0.0 by the trapezoid rule; *)
(* with two or more bins the value is the symbolic application.            *)
(***************************************************************************)
BandBins(n, fs, low, high) ==
    {b \in 0..(n \div 2) :
        /\ ~RLt(Rat(b * fs, n), low)
        /\ ~RLt(high, Rat(b * fs, n))}

bandpower(arr, fs, low, high) ==
    IF Cardinality(BandBins(Len(arr), fs, low, high)) <= 1 THEN Zero
    ELSE [k |-> "bandpower", arr |-> arr, fs |-> fs, low |-> low, high |-> high]

\* a / b if b > 0 else 0, for band powers
BandRatio(a, b) ==
    IF b.k = "rat" THEN (IF b.n > 0 THEN RDiv(a, b) ELSE Zero)
    ELSE [k |-> "ratio", a |-> a, b |-> b]

(***************************************************************************)
(* Configuration of the training script                                    *)
(***************************************************************************)
DEFAULT_WRIST_SR == 32

DEFAULT_BVP_SR == 64

ALLOWED_LABELS == {0, 1}

Channels == {"EDA", "TEMP", "ACC_x", "ACC_y", "ACC_z", "BVP"}

(***************************************************************************)
(* Rows: Python dicts, kept as the sequence of <<key, value>> in insertion *)
(* order                                                                   *)
(***************************************************************************)
Keys(row) == Tup([i \in 1..Len(row) |-> row[i][1]])

Has(row, key) == \E i \in 1..Len(row) : row[i][1] = key

Get(row, key) == row[CHOOSE i \in 1..Len(row) : row[i][1] = key][2]

\* {f"{prefix}_{k}": v for k, v in d.items()}
Prefixed(prefix, d) ==
    Tup([i \in 1..Len(d) |-> <<prefix \o "_" \o d[i][1], d[i][2]>>])

\* v scaled by the rational r
Scaled(v, r) ==
    IF v.k = "rat" THEN RMul(v, r)
    ELSE IF v.k = "root" THEN RootVal(RMul(v.c, r), v.q)
    ELSE v

\* the exact square root of a perfect square
Sqrt(s) == CHOOSE r \in 0..s : r * r = s

(***************************************************************************)
(* Training path: extract_window_features                                  *)
(***************************************************************************)
\* stats_dict with "median" built before "max"
stats_dictReordered(arr) ==
    << <<"mean", np_mean(arr)>>,
       <<"std", pd_std(arr)>>,
       <<"min", np_min(arr)>>,
       <<"median", np_median(arr)>>,
       <<"max", np_max(arr)>>,
       <<"skew", pd_skew(arr)>>,
       <<"kurt", pd_kurt(arr)>> >>

\* stats_dict: the pandas summary of one slice
stats_dict(arr) ==
    << <<"mean", np_mean(arr)>>,
       <<"std", pd_std(arr)>>,
       <<"min", np_min(arr)>>,
       <<"max", np_max(arr)>>,
       <<"median", np_median(arr)>>,
       <<"skew", pd_skew(arr)>>,
       <<"kurt", pd_kurt(arr)>> >>

\* valid without its variance test
validFinite(arr) ==
    ~(\/ \E i \in 1..Len(arr) : arr[i].k = "nan"
      \/ \E i \in 1..Len(arr) : arr[i].k = "inf")

\* valid: no NaN, no Inf, and np.std(arr) != 0 (np.std of an empty slice is
\* NaN, which is not 0)
valid(arr) ==
    ~(\/ \E i \in 1..Len(arr) : arr[i].k = "nan"
      \/ \E i \in 1..Len(arr) : arr[i].k = "inf"
      \/ np_std(Nums(arr)) = Zero)

\* mean of x at the 0-based indices idx
MeanAt(x, idx) == Rat(Sum(Tup([i \in 1..Len(idx) |-> x[idx[i] + 1]])), Len(idx))

\* distance=int(sr * 0.5)
TrainEdaDistance(sr) == sr \div 2

TrainEdaFeatures(eda, sr) ==
    LET d     == diff(eda)
        peaks == find_peaks(eda, TrainEdaDistance(sr))
        LF    == bandpower(eda, sr, Rat(1, 100), Rat(1, 10))
        HF    == bandpower(eda, sr, Rat(1, 10), Rat(1, 4))
    IN  Prefixed("EDA", stats_dict(eda)) \o
        << <<"EDA_diff_mean", np_mean(d)>>,
           <<"EDA_diff_std", np_std(d)>>,
           <<"EDA_peak_count", Rat(Len(peaks), 1)>>,
           <<"EDA_peak_mean_amp", IF Len(peaks) > 0 THEN MeanAt(eda, peaks) ELSE Zero>>,
           <<"EDA_LF", LF>>,
           <<"EDA_HF", HF>>,
           <<"EDA_LFHF", BandRatio(LF, HF)>> >>

TrainTempFeatures(temp) ==
    Prefixed("TEMP", stats_dict(temp)) \o
    << <<"TEMP_slope", Rat(temp[Len(temp)] - temp[1], Len(temp))>> >>

\* np.sqrt(ax ** 2 + ay ** 2 + az ** 2), sample by sample
Magnitude(ax, ay, az) ==
    Tup([i \in 1..Len(ax) |->
        IF "nan" \in {ax[i].k, ay[i].k, az[i].k} THEN NaN
        ELSE IF "inf" \in {ax[i].k, ay[i].k, az[i].k} THEN Inf
        ELSE Fin(Sqrt(ax[i].v * ax[i].v + ay[i].v * ay[i].v + az[i].v * az[i].v))])

\* np.sum(mag ** 2) / len(mag)
Energy(mag) == Rat(Sum(Tup([i \in 1..Len(mag) |-> mag[i] * mag[i]])), Len(mag))

TrainAccFeatures(mag) ==
    Prefixed("ACC_mag", stats_dict(mag)) \o << <<"ACC_energy", Energy(mag)>> >>

\* distance=int(DEFAULT_BVP_SR * 0.3)
TrainBvpDistance == (DEFAULT_BVP_SR * 3) \div 10

\* np.sum(np.abs(rr_diff) > 0.05), rr_diff = dd / rate
NN50(dd, rate) ==
    Cardinality({i \in 1..Len(dd) : RLt(Rat(5, 100), Rat(Abs(dd[i]), rate))})

\* np.interp of ibi onto the uniform grid over cumsum(ibi): as long as ibi,
\* its values left symbolic (only bandpower reads them)
IbiInterp(dp) == Tup([i \in 1..Len(dp) |-> [k |-> "interp", i |-> i, ibi |-> dp]])

\* the time-domain values without the two len(rr_diff) guards: the mean and
\* the ratio over an empty rr_diff are 0/0
HrvTimeUnguarded(dp, rate) ==
    LET dd == diff(dp)
    IN  << <<"HR_mean", RDiv(Rat(60, 1), Rat(Sum(dp), rate * Len(dp)))>>,
           <<"HRV_SDNN", Scaled(np_std(dp), Rat(1, rate))>>,
           <<"HRV_RMSSD",
             IF Len(dd) > 0
             THEN RootVal(Rat(1, rate),
                          Rat(Sum(Tup([i \in 1..Len(dd) |-> dd[i] * dd[i]])), Len(dd)))
             ELSE NaNv>>,
           <<"HRV_pNN50",
             IF Len(dd) > 0 THEN Rat(NN50(dd, rate), Len(dd)) ELSE NaNv>> >>

\* the time-domain HRV values from the peak indices; dp = diff(peaks) are
\* the inter-beat intervals in samples, ibi = dp / rate in seconds
HrvTime(dp, rate) ==
    LET dd == diff(dp)
    IN  << <<"HR_mean", RDiv(Rat(60, 1), Rat(Sum(dp), rate * Len(dp)))>>,
           <<"HRV_SDNN", Scaled(np_std(dp), Rat(1, rate))>>,
           <<"HRV_RMSSD",
             IF Len(dd) > 0
             THEN RootVal(Rat(1, rate),
                          Rat(Sum(Tup([i \in 1..Len(dd) |-> dd[i] * dd[i]])), Len(dd)))
             ELSE Zero>>,
           <<"HRV_pNN50",
             IF Len(dd) > 0 THEN Rat(NN50(dd, rate), Len(dd)) ELSE Zero>> >>

\* the try block: LF, HF over the interpolated intervals at 4 Hz.  On one
\* interval welch either raises (caught, zeros) or returns the single bin
\* f = 0, which lies in neither band (zeros as well).
HrvFreq(dp) ==
    LET LF == bandpower(IbiInterp(dp), 4, Rat(4, 100), Rat(15, 100))
        HF == bandpower(IbiInterp(dp), 4, Rat(15, 100), Rat(4, 10))
    IN  << <<"HRV_LF", LF>>, <<"HRV_HF", HF>>, <<"HRV_LFHF", BandRatio(LF, HF)>> >>

\* the else branch with the ratio computed as LF / HF = 0 / 0
HrvZeroButRatio ==
    << <<"HR_mean", Zero>>, <<"HRV_SDNN", Zero>>, <<"HRV_RMSSD", Zero>>,
       <<"HRV_pNN50", Zero>>, <<"HRV_LF", Zero>>, <<"HRV_HF", Zero>>,
       <<"HRV_LFHF", NaNv>> >>

HrvZero ==
    << <<"HR_mean", Zero>>, <<"HRV_SDNN", Zero>>, <<"HRV_RMSSD", Zero>>,
       <<"HRV_pNN50", Zero>>, <<"HRV_LF", Zero>>, <<"HRV_HF", Zero>>,
       <<"HRV_LFHF", Zero>> >>

TrainBvpPeaks(bvp) == find_peaks(bvp, TrainBvpDistance)

TrainHrv(bvp) ==
    LET peaks == TrainBvpPeaks(bvp)
    IN  IF Len(peaks) > 1
        THEN HrvTime(diff(peaks), DEFAULT_BVP_SR) \o HrvFreq(diff(peaks))
        ELSE HrvZero

TrainBvpFeatures(bvp) == Prefixed("BVP", stats_dict(bvp)) \o TrainHrv(bvp)

\* pd.Series(lbl).mode().iloc[0]: the smallest of the most frequent values
Count(lbl, v) == Cardinality({i \in 1..Len(lbl) : lbl[i] = v})

\* the largest of the most frequent values
ModeLargest(lbl) ==
    MaxOf({v \in Range(lbl) : \A w \in Range(lbl) : Count(lbl, w) <= Count(lbl, v)})

Mode(lbl) ==
    MinOf({v \in Range(lbl) : \A w \in Range(lbl) : Count(lbl, w) <= Count(lbl, v)})

\* the label slice taken at the window's own indices, without the scale
LabelSliceUnscaled(chest_labels, n, start, end) == Slice(chest_labels, start, end)

\* the label slice of window [start, end): chest_labels[c_start:c_end] with
\* c_start = int(start * scale), c_end = min(int(end * scale), chest_len),
\* scale = chest_len / n
LabelSlice(chest_labels, n, start, end) ==
    LET chest_len == Len(chest_labels)
        c_start   == (start * chest_len) \div n
        c_scaled  == (end * chest_len) \div n
        c_end     == IF c_scaled < chest_len THEN c_scaled ELSE chest_len
    IN  Slice(chest_labels, c_start, c_end)

LabelOf(chest_labels, n, start, end) ==
    LET lbl == LabelSlice(chest_labels, n, start, end)
    IN  IF Len(lbl) > 0 /\ Mode(lbl) \in ALLOWED_LABELS
        THEN << <<"label", Rat(Mode(lbl), 1)>> >>
        ELSE << >>

HasAcc(signals) == {"ACC_x", "ACC_y", "ACC_z"} \subseteq DOMAIN signals

\* the channel slices of window [start, end) that the loop body gates on
EdaSlice(signals, start, end) == Slice(signals["EDA"], start, end)

TempSlice(signals, start, end) == Slice(signals["TEMP"], start, end)

MagSlice(signals, start, end) ==
    Magnitude(Slice(signals["ACC_x"], start, end),
              Slice(signals["ACC_y"], start, end),
              Slice(signals["ACC_z"], start, end))

BvpSlice(signals, start, end) == Slice(signals["BVP"], start * 2, end * 2)

\* one pass of the loop body: the row it appends, or << >> when a gate
\* continues or no label is set
WindowRow(signals, chest_labels, sr, n, start, end) ==
    LET edaOk  == "EDA" \notin DOMAIN signals \/ valid(EdaSlice(signals, start, end))
        tempOk == "TEMP" \notin DOMAIN signals \/ valid(TempSlice(signals, start, end))
        accOk  == ~HasAcc(signals) \/ valid(MagSlice(signals, start, end))
        bvpOk  == "BVP" \notin DOMAIN signals \/ valid(BvpSlice(signals, start, end))
        label  == LabelOf(chest_labels, n, start, end)
    IN  IF ~edaOk THEN << >>
        ELSE IF ~tempOk THEN << >>
        ELSE IF ~accOk THEN << >>
        ELSE IF ~bvpOk THEN << >>
        ELSE IF label = << >> THEN << >>
        ELSE (IF "EDA" \in DOMAIN signals
              THEN TrainEdaFeatures(Nums(EdaSlice(signals, start, end)), sr)
              ELSE << >>) \o
             (IF "TEMP" \in DOMAIN signals
              THEN TrainTempFeatures(Nums(TempSlice(signals, start, end)))
              ELSE << >>) \o
             (IF HasAcc(signals)
              THEN TrainAccFeatures(Nums(MagSlice(signals, start, end)))
              ELSE << >>) \o
             (IF "BVP" \in DOMAIN signals
              THEN TrainBvpFeatures(Nums(BvpSlice(signals, start, end)))
              ELSE << >>) \o
             label

(***************************************************************************)
(* Inference path: extract_features_window                                 *)
(***************************************************************************)
\* the numpy / scipy.stats summary written out per channel in api.py
ServeStats(prefix, arr) ==
    << <<prefix \o "_mean", np_mean(arr)>>,
       <<prefix \o "_std", np_std(arr)>>,
       <<prefix \o "_min", np_min(arr)>>,
       <<prefix \o "_max", np_max(arr)>>,
       <<prefix \o "_median", np_median(arr)>>,
       <<prefix \o "_skew", sp_skew(arr)>>,
       <<prefix \o "_kurt", sp_kurtosis(arr)>> >>

\* find_peaks(eda, distance=16)
ServeEdaDistance == 16

ServeEdaFeatures(eda) ==
    LET d     == diff(eda)
        peaks == find_peaks(eda, ServeEdaDistance)
        LF    == bandpower(eda, 32, Rat(1, 100), Rat(1, 10))
        HF    == bandpower(eda, 32, Rat(1, 10), Rat(1, 4))
    IN  ServeStats("EDA", eda) \o
        << <<"EDA_diff_mean", np_mean(d)>>,
           <<"EDA_diff_std", np_std(d)>>,
           <<"EDA_peak_count", Rat(Len(peaks), 1)>>,
           <<"EDA_peak_mean_amp", IF Len(peaks) > 0 THEN MeanAt(eda, peaks) ELSE Zero>>,
           <<"EDA_LF", LF>>,
           <<"EDA_HF", HF>>,
           <<"EDA_LFHF", BandRatio(LF, HF)>> >>

ServeTempFeatures(temp) ==
    ServeStats("TEMP", temp) \o
    << <<"TEMP_slope", Rat(temp[Len(temp)] - temp[1], Len(temp))>> >>

ServeAccFeatures(mag) ==
    ServeStats("ACC_mag", mag) \o << <<"ACC_energy", Energy(mag)>> >>

\* find_peaks(bvp, distance=20)
ServeBvpDistance == 20

ServeBvpPeaks(bvp) == find_peaks(bvp, ServeBvpDistance)

\* ibi = np.diff(peaks) / 64.0
ServeBvpRate == 64

ServeHrv(bvp) ==
    LET peaks == ServeBvpPeaks(bvp)
    IN  IF Len(peaks) > 1
        THEN HrvTime(diff(peaks), ServeBvpRate) \o HrvFreq(diff(peaks))
        ELSE HrvZero

extract_features_window(signals) ==
    ServeEdaFeatures(Nums(signals["EDA"])) \o
    ServeTempFeatures(Nums(signals["TEMP"])) \o
    ServeAccFeatures(Nums(Magnitude(signals["ACC_x"], signals["ACC_y"], signals["ACC_z"]))) \o
    ServeStats("BVP", Nums(signals["BVP"])) \o
    ServeHrv(Nums(signals["BVP"]))

(***************************************************************************)
(* State                                                                   *)
(*   signals, chest_labels, sr, window_samples, step_samples: the          *)
(*       arguments of extract_window_features                              *)
(*   pc, n, start, features, exc: its control point, locals, result and    *)
(*       the exception it raised, if any                                   *)
(*   visited, origin: history: the windows the loop has visited, and the   *)
(*       window each row of features came from                             *)
(*   served: the row extract_features_window returned for signals          *)
(*   request, response: the input and the result of predict_stress         *)
(***************************************************************************)
VARIABLES signals, chest_labels, sr, window_samples, step_samples,
          pc, n, start, features, exc, visited, origin,
          served, request, response

vars == <<signals, chest_labels, sr, window_samples, step_samples,
          pc, n, start, features, exc, visited, origin,
          served, request, response>>

None == << >>

(***************************************************************************)
(* extract_window_features, one action per step                            *)
(***************************************************************************)
\* min(len(v) for v in signals.values())
MinLen(sig) == MinOf({Len(sig[c]) : c \in DOMAIN sig})

\* the range with its stop one too small: range(0, n - window_samples, ...)
InRangeShort(s, len, window) == s < len - window

\* range(0, n - window_samples + 1, step_samples) still yields start
InRange(s, len, window) == s < len - window + 1

\* lines 90-93: n, chest_len, scale = chest_len / n.  min() of no channel
\* raises ValueError, the division raises ZeroDivisionError when n = 0.
ExtractCall ==
    /\ pc = "call"
    /\ IF DOMAIN signals = {}
       THEN pc' = "raised" /\ exc' = "ValueError" /\ n' = n
       ELSE IF MinLen(signals) = 0
       THEN pc' = "raised" /\ exc' = "ZeroDivisionError" /\ n' = 0
       ELSE pc' = "loop" /\ exc' = exc /\ n' = MinLen(signals)
    /\ start' = 0
    /\ UNCHANGED <<signals, chest_labels, sr, window_samples, step_samples,
                   features, visited, origin, served, request, response>>

\* one pass of the loop at lines 95-220
ExtractWindow ==
    /\ pc = "loop"
    /\ InRange(start, n, window_samples)
    /\ LET end == start + window_samples
           row == WindowRow(signals, chest_labels, sr, n, start, end)
       IN  /\ visited' = Append(visited, <<start, end>>)
           /\ features' = IF row = << >> THEN features ELSE Append(features, row)
           /\ origin' = IF row = << >> THEN origin ELSE Append(origin, <<start, end>>)
    /\ start' = start + step_samples
    /\ UNCHANGED <<signals, chest_labels, sr, window_samples, step_samples,
                   pc, n, exc, served, request, response>>

\* line 222: return features
ExtractReturn ==
    /\ pc = "loop"
    /\ ~InRange(start, n, window_samples)
    /\ pc' = "done"
    /\ UNCHANGED <<signals, chest_labels, sr, window_samples, step_samples,
                   n, start, features, exc, visited, origin,
                   served, request, response>>

(***************************************************************************)
(* Inputs                                                                  *)
(***************************************************************************)
MaxN == 4

MaxW == 3

MaxL == 3

Steps == {1, 2}

Labels == {0, 1, 2}

\* a channel of the given length: alternating 0, 1 ("alt"), constant 1
\* ("ones"), 0 followed by ones ("step"), or alternating with a NaN or an
\* Inf at position pos
Pattern(kind, pos, len) ==
    Tup([i \in 1..len |->
        IF kind = "ones" THEN Fin(1)
        ELSE IF kind = "step" THEN Fin(IF i = 1 THEN 0 ELSE 1)
        ELSE IF kind = "nan" /\ i = pos THEN NaN
        ELSE IF kind = "inf" /\ i = pos THEN Inf
        ELSE Fin((i + 1) % 2)])

Const(v, len) == Tup([i \in 1..len |-> Fin(v)])

\* 1 - x, sample by sample
Flip(x) == Tup([i \in 1..Len(x) |-> Fin(1 - x[i].v)])

Shapes(len) ==
    {[kind |-> k, pos |-> 0] : k \in {"alt", "ones", "step"}} \cup
    {[kind |-> k, pos |-> p] : k \in {"nan", "inf"}, p \in 1..len}

\* the six channels: base channels of length len, BVP of length blen; the
\* channel group named by bad has shape sh, the others alternate; an ACC of
\* shape "ones" varies on two axes and has a constant magnitude
MakeSignals(len, blen, bad, sh) ==
    LET pat(c, l) == IF bad = c THEN Pattern(sh.kind, sh.pos, l)
                     ELSE Pattern("alt", 0, l)
    IN  [c \in Channels |->
            IF c = "EDA" THEN pat("EDA", len)
            ELSE IF c = "TEMP" THEN pat("TEMP", len)
            ELSE IF c = "BVP" THEN pat("BVP", blen)
            ELSE IF bad = "ACC" /\ sh.kind = "ones"
            THEN (IF c = "ACC_x" THEN Pattern("alt", 0, len)
                  ELSE IF c = "ACC_y" THEN Flip(Pattern("alt", 0, len))
                  ELSE Const(0, len))
            ELSE IF c = "ACC_x" THEN pat("ACC", len)
            ELSE Const(0, len)]

Restrict(f, S) == [c \in S |-> f[c]]

Present == {Channels, {"EDA", "ACC_x"}}

RECURSIVE SeqsUpTo(_, _)
SeqsUpTo(S, len) ==
    IF len = 0 THEN {<< >>}
    ELSE LET shorter == SeqsUpTo(S, len - 1)
         IN  shorter \cup {Append(q, v) : q \in {r \in shorter : Len(r) = len - 1}, v \in S}

FewLabels == {<<0>>, <<1, 0, 1>>}

\* the state in which extract_window_features is entered
Entered(sig, lab, w, st) ==
    /\ signals = sig
    /\ chest_labels = lab
    /\ sr = DEFAULT_WRIST_SR
    /\ window_samples = w
    /\ step_samples = st
    /\ pc = "call"
    /\ n = 0
    /\ start = 0
    /\ features = << >>
    /\ exc = None
    /\ visited = << >>
    /\ origin = << >>
    /\ served = None
    /\ request = None
    /\ response = None

\* batch inputs: every shape in every channel group with a few label
\* streams, and clean signals with every label stream
Init ==
    \E len \in 0..MaxN, w \in 1..MaxW, st \in Steps :
    \E blen \in {len, 2 * len}, P \in Present :
       \/ \E bad \in {"EDA", "TEMP", "ACC", "BVP"}, lab \in FewLabels :
          \E sh \in Shapes(IF bad = "BVP" THEN blen ELSE len) :
             Entered(Restrict(MakeSignals(len, blen, bad, sh), P), lab, w, st)
       \/ \E lab \in SeqsUpTo(Labels, MaxL) :
             Entered(Restrict(MakeSignals(len, blen, "none", [kind |-> "alt", pos |-> 0]), P),
                     lab, w, st)

Next == ExtractCall \/ ExtractWindow \/ ExtractReturn

Spec == Init /\ [][Next]_vars

(***************************************************************************)
(* Properties of extract_window_features (specification Spec)              *)
(***************************************************************************)
\* the windows (start, start + w) with start a multiple of st and
\* start + w <= len
WindowSet(len, w, st) ==
    {<<s, s + w>> : s \in {t \in 0..len : t % st = 0 /\ t + w <= len}}

\* C1: the loop visits exactly the windows (k*step, k*step + window) with
\* k*step + window <= n, in increasing start order: none when
\* n < window_samples (also when the call raises), and
\* floor((n - window_samples) / step_samples) + 1 of them otherwise, where n
\* is the shortest channel length.
C1_WindowsVisited ==
    LET len == MinLen(signals)
        all == WindowSet(len, window_samples, step_samples)
    IN  /\ \A i \in 1..Len(visited) : visited[i] \in all
        /\ \A i \in 1..Len(visited) : visited[i][1] = (i - 1) * step_samples
        /\ pc \in {"done", "raised"} =>
              /\ Range(visited) = all
              /\ len < window_samples => Len(visited) = 0
              /\ len >= window_samples =>
                    Len(visited) = (len - window_samples) \div step_samples + 1

C1_Witness ==
    /\ pc = "done"
    /\ Len(visited) >= 2
    /\ step_samples = 2
    /\ (MinLen(signals) - window_samples) % step_samples # 0

\* a slice with a NaN, with an Inf, or whose samples are all equal
Degenerate(arr) ==
    \/ \E i \in 1..Len(arr) : arr[i] = NaN
    \/ \E i \in 1..Len(arr) : arr[i] = Inf
    \/ Len(arr) > 0 /\ \A i, j \in 1..Len(arr) : arr[i] = arr[j]

\* the slices of window w that belong to channels present in the signal
GateSlices(w) ==
    (IF "EDA" \in DOMAIN signals THEN {EdaSlice(signals, w[1], w[2])} ELSE {}) \cup
    (IF "TEMP" \in DOMAIN signals THEN {TempSlice(signals, w[1], w[2])} ELSE {}) \cup
    (IF HasAcc(signals) THEN {MagSlice(signals, w[1], w[2])} ELSE {}) \cup
    (IF "BVP" \in DOMAIN signals THEN {BvpSlice(signals, w[1], w[2])} ELSE {})

Floor(a, b) == CHOOSE q \in 0..a : q * b <= a /\ a < (q + 1) * b

\* the label indices (0-based) of window w:
\* floor(start * L / N) .. min(floor(end * L / N), L) - 1
LabelRange(w) ==
    LET L  == Len(chest_labels)
        N  == MinLen(signals)
        lo == Floor(w[1] * L, N)
        hi == Floor(w[2] * L, N)
    IN  {j \in 0..(L - 1) : lo <= j /\ j < hi}

Occurrences(v, J) == Cardinality({j \in J : chest_labels[j + 1] = v})

\* v is a most frequent label over the indices J
IsMode(v, J) ==
    /\ Occurrences(v, J) >= 1
    /\ \A u \in Labels : Occurrences(u, J) <= Occurrences(v, J)

\* C3: every row carries a label, the label is 0 or 1 and is a most
\* frequent value of the label stream over the window's label range
\* [floor(start*scale), min(floor(end*scale), L)), scale = L / N; a window
\* whose label range is empty or has no most frequent value in {0, 1}
\* yields no row.
C3_LabelIsMode ==
    /\ Len(origin) = Len(features)
    /\ \A i \in 1..Len(features) :
          /\ Has(features[i], "label")
          /\ \E v \in {0, 1} :
                /\ Get(features[i], "label") = Rat(v, 1)
                /\ IsMode(v, LabelRange(origin[i]))
    /\ \A i \in 1..Len(visited) :
          (~\E v \in {0, 1} : IsMode(v, LabelRange(visited[i]))) =>
              visited[i] \notin Range(origin)

\* with a label stream of another length than the signal, one window gets
\* label 1 and another is dropped because its most frequent label is 2
C3_Witness ==
    /\ pc = "done"
    /\ Len(chest_labels) # MinLen(signals)
    /\ \E i \in 1..Len(features) : Get(features[i], "label") = Rat(1, 1)
    /\ \E i \in 1..Len(visited) :
          /\ IsMode(2, LabelRange(visited[i]))
          /\ ~IsMode(0, LabelRange(visited[i]))
          /\ ~IsMode(1, LabelRange(visited[i]))
          /\ \A a \in GateSlices(visited[i]) : ~Degenerate(a)
          /\ visited[i] \notin Range(origin)

\* the labels tied for most frequent over the indices J
Tied(J) == {v \in Labels : IsMode(v, J)}

\* C11: when several labels are tied for most frequent in a window's label
\* slice, the smallest tied value is the mode: a row carries the smallest
\* tied value as its label, so a tie between an allowed label and a larger
\* disallowed one keeps the window with the allowed label and a tie between
\* 0 and 1 gives 0; a window that passes the signal gates is dropped only
\* when the smallest tied value is outside {0, 1}.
C11_TieTakesSmallest ==
    \A i \in 1..Len(visited) :
        LET T == Tied(LabelRange(visited[i]))
        IN  T # {} =>
              /\ \A k \in 1..Len(origin) :
                    origin[k] = visited[i] =>
                        /\ MinOf(T) \in ALLOWED_LABELS
                        /\ Get(features[k], "label") = Rat(MinOf(T), 1)
              /\ (/\ MinOf(T) \in ALLOWED_LABELS
                  /\ \A a \in GateSlices(visited[i]) : ~Degenerate(a))
                     => visited[i] \in Range(origin)

\* C11 witness: a finished call with a window whose label slice ties 1 with
\* the disallowed 2 and which is kept with label 1
C11_Witness ==
    /\ pc = "done"
    /\ \E k \in 1..Len(origin) :
          /\ Tied(LabelRange(origin[k])) = {1, 2}
          /\ Get(features[k], "label") = Rat(1, 1)

\* C7: no call of extract_window_features raises to its caller.
C7_NeverRaises == pc # "raised"

(***************************************************************************)
(* The two paths on one window (specification SpecPaths)                   *)
(*                                                                         *)
(* signals is a single window: extract_window_features runs over it with   *)
(* window_samples = step_samples = its length, and once it has returned    *)
(* extract_features_window is applied to the same arrays.                  *)
(***************************************************************************)
\* features = extract_features_window(signals)
Serve ==
    /\ pc = "done"
    /\ served = None
    /\ DOMAIN signals = Channels
    /\ served' = extract_features_window(signals)
    /\ UNCHANGED <<signals, chest_labels, sr, window_samples, step_samples,
                   pc, n, start, features, exc, visited, origin,
                   request, response>>

\* main: X = pd.DataFrame(all_rows).dropna().reset_index().drop("label")
\* the columns are "index" followed by the keys of the rows in first-seen
\* order, without "label"
TrainColumns(rows) ==
    <<"index">> \o SelectSeq(Keys(rows[1]), LAMBDA key : key # "label")

\* predict_stress: df = pd.DataFrame([features]); df.insert(0, "index", 0)
ServeColumns(row) == <<"index">> \o Keys(row)

\* predict_stress: the list order
order ==
    << "index",
       "EDA_mean", "EDA_std", "EDA_min", "EDA_max", "EDA_median", "EDA_skew", "EDA_kurt",
       "EDA_diff_mean", "EDA_diff_std",
       "EDA_peak_count", "EDA_peak_mean_amp",
       "EDA_LF", "EDA_HF", "EDA_LFHF",
       "TEMP_mean", "TEMP_std", "TEMP_min", "TEMP_max", "TEMP_median",
       "TEMP_skew", "TEMP_kurt", "TEMP_slope",
       "ACC_mag_mean", "ACC_mag_std", "ACC_mag_min", "ACC_mag_max",
       "ACC_mag_median", "ACC_mag_skew", "ACC_mag_kurt", "ACC_energy",
       "BVP_mean", "BVP_std", "BVP_min", "BVP_max", "BVP_median",
       "BVP_skew", "BVP_kurt",
       "HR_mean", "HRV_SDNN", "HRV_RMSSD", "HRV_pNN50",
       "HRV_LF", "HRV_HF", "HRV_LFHF" >>

MaxShort == 4

MaxLead == 2

\* the distances between two pulses around the two paths' minimum distances
Gaps == (TrainBvpDistance - 1)..(ServeBvpDistance + 1)

\* base length of a window whose BVP slice holds two pulses MaxLead and the
\* widest gap apart, with a sample after the second
LongW == (MaxLead + ServeBvpDistance + 3) \div 2

Lift(x) == Tup([i \in 1..Len(x) |-> Fin(x[i])])

NonConstant(S, len) ==
    {x \in [1..len -> S] : \E i, j \in 1..len : x[i] # x[j]}

\* a flat baseline with a pulse of height h1 at p1 and, when p2 > 0, one of
\* height h2 at p2
Pulses(len, p1, h1, p2, h2) ==
    Tup([i \in 1..len |-> Fin(IF i = p1 THEN h1 ELSE IF i = p2 THEN h2 ELSE 0)])

\* one window: every channel alternates except EDA and BVP as given
OneWindow(eda, bvp) ==
    [c \in Channels |->
        IF c = "EDA" THEN eda
        ELSE IF c = "BVP" THEN bvp
        ELSE IF c \in {"TEMP", "ACC_x"} THEN Pattern("alt", 0, Len(eda))
        ELSE Const(0, Len(eda))]

InitPaths ==
    \E lab \in {<<1>>} :
       \/ \E len \in 2..MaxShort : \E eda \in NonConstant({0, 1, 2}, len) :
             Entered(OneWindow(Lift(eda), Pattern("alt", 0, 2 * len)), lab, len, len)
       \/ \E len \in 2..MaxShort : \E bvp \in NonConstant({0, 1}, 2 * len) :
             Entered(OneWindow(Pattern("alt", 0, len), Lift(bvp)), lab, len, len)
       \/ \E p1 \in 1..MaxLead, g \in Gaps \cup {0}, h1 \in {1, 2}, h2 \in {1, 2} :
             Entered(OneWindow(Pattern("alt", 0, LongW),
                               Pulses(2 * LongW, p1, h1, IF g = 0 THEN 0 ELSE p1 + g, h2)),
                     lab, LongW, LongW)

NextPaths == ExtractCall \/ ExtractWindow \/ ExtractReturn \/ Serve

SpecPaths == InitPaths /\ [][NextPaths]_vars

\* the BVP slice of the window, as both paths read it
WindowBvp == Nums(signals["BVP"])

HrvNames ==
    {"HR_mean", "HRV_SDNN", "HRV_RMSSD", "HRV_pNN50", "HRV_LF", "HRV_HF", "HRV_LFHF"}

\* C4: in both paths, when peak detection on the BVP slice returns fewer
\* than 2 peaks, all seven HRV outputs of the row are exactly 0.
C4_FewPeaksZeroHrv ==
    /\ \A i \in 1..Len(features) :
          Len(TrainBvpPeaks(WindowBvp)) < 2 =>
              \A name \in HrvNames : Get(features[i], name) = Zero
    /\ served # None =>
          (Len(ServeBvpPeaks(WindowBvp)) < 2 =>
              \A name \in HrvNames : Get(served, name) = Zero)

\* both rows exist for a non-flat BVP slice with exactly one peak
C4_Witness ==
    /\ Len(features) = 1
    /\ served # None
    /\ Len(TrainBvpPeaks(WindowBvp)) = 1
    /\ Len(ServeBvpPeaks(WindowBvp)) = 1
    /\ Get(features[1], "BVP_std") # Zero
    /\ Get(features[1], "HRV_LFHF") = Zero
    /\ Get(served, "HRV_LFHF") = Zero

\* 60 / mean(ibi) for the single interval between two peaks, at 64 Hz
HrOfTwo(peaks) == Rat(60 * 64, peaks[2] - peaks[1])

\* C5: in both paths, with exactly 2 BVP peaks the row is computed (nothing
\* is raised), HRV_pNN50 = 0 and HRV_RMSSD = 0, and HR_mean = 60 / mean(ibi)
\* over the single interval.
C5_TwoPeaks ==
    /\ pc # "raised"
    /\ \A i \in 1..Len(features) :
          Len(TrainBvpPeaks(WindowBvp)) = 2 =>
              /\ Get(features[i], "HRV_pNN50") = Zero
              /\ Get(features[i], "HRV_RMSSD") = Zero
              /\ Get(features[i], "HR_mean") = HrOfTwo(TrainBvpPeaks(WindowBvp))
    /\ served # None =>
          (Len(ServeBvpPeaks(WindowBvp)) = 2 =>
              /\ Get(served, "HRV_pNN50") = Zero
              /\ Get(served, "HRV_RMSSD") = Zero
              /\ Get(served, "HR_mean") = HrOfTwo(ServeBvpPeaks(WindowBvp)))

\* both rows exist for a BVP slice in which both paths find exactly 2 peaks
C5_Witness ==
    /\ Len(features) = 1
    /\ served # None
    /\ Len(TrainBvpPeaks(WindowBvp)) = 2
    /\ Len(ServeBvpPeaks(WindowBvp)) = 2
    /\ Get(features[1], "HR_mean") # Zero
    /\ Get(served, "HR_mean") = Get(features[1], "HR_mean")

StatNames == {"mean", "std", "min", "max", "median", "skew", "kurt"}

StatPrefixes == {"EDA", "TEMP", "ACC_mag", "BVP"}

\* C9: on the same window slice the training summary (stats_dict) and the
\* inference summary return the same values.
C9_SameSummary ==
    (Len(features) >= 1 /\ served # None) =>
        \A pre \in StatPrefixes, st \in StatNames :
            LET key == pre \o "_" \o st
            IN  \/ NumEq(Get(features[1], key), Get(served, key))
                \/ Get(features[1], key) = NaNv /\ Get(served, key) = NaNv

\* C10: both paths use the same minimum peak distance for EDA and for BVP,
\* and on the same BVP slice detect the same peaks and the same inter-beat
\* intervals.
C10_SamePeaks ==
    (Len(features) >= 1 /\ served # None) =>
        /\ Get(features[1], "EDA_peak_count") = Get(served, "EDA_peak_count")
        /\ TrainBvpPeaks(WindowBvp) = ServeBvpPeaks(WindowBvp)
        /\ Get(features[1], "HR_mean") = Get(served, "HR_mean")

(***************************************************************************)
(* Inference endpoint: predict_stress (specification SpecApi)              *)
(***************************************************************************)
BVP_SAMPLES == 384

WRIST_SAMPLES == 192

\* generate_advice: the messages, in order, by their subject
generate_advice(feats) ==
    LET hr   == Get(feats, "HR_mean")
        eda  == Get(feats, "EDA_mean")
        temp == Get(feats, "TEMP_mean")
        acc  == Get(feats, "ACC_mag_mean")
        hrv  == Get(feats, "HRV_SDNN")
        msgs ==
            (IF NumGt(hr, Rat(100, 1)) THEN <<"heart rate elevated">>
             ELSE IF NumLt(hr, Rat(55, 1)) THEN <<"heart rate low">> ELSE << >>) \o
            (IF NumGt(eda, Rat(5, 1)) THEN <<"skin conductance high">>
             ELSE IF NumLt(eda, Rat(1, 2)) THEN <<"EDA very low">> ELSE << >>) \o
            (IF NumGt(temp, Rat(377, 10)) THEN <<"temperature elevated">>
             ELSE IF NumLt(temp, Rat(355, 10)) THEN <<"temperature low">> ELSE << >>) \o
            (IF NumGt(acc, Rat(120, 1)) THEN <<"movement high">>
             ELSE IF NumLt(acc, Rat(15, 1)) THEN <<"movement very low">> ELSE << >>) \o
            (IF NumLt(hrv, Rat(3, 100)) THEN <<"HRV low">> ELSE << >>)
    IN  IF msgs = << >> THEN <<"everything stable">> ELSE msgs

\* the physiological override at the top of predict_stress
Override(input) ==
    /\ ~RLt(Rat(input.TEMP, 1), Rat(36, 1))
    /\ ~RLt(Rat(375, 10), Rat(input.TEMP, 1))
    /\ ~RLt(Rat(3, 1), Rat(input.EDA, 1))
    /\ Abs(input.ACC_x) < 50
    /\ Abs(input.ACC_y) < 50
    /\ Abs(input.ACC_z) < 50

\* value + coef * np.random.randn(len), for the draw z (one period of it,
\* repeated); coef = num / den
Noisy(value, num, den, z, len) ==
    Tup([i \in 1..len |-> Fin(value + (num * z[((i - 1) % Len(z)) + 1]) \div den)])

\* the synthetic 6-second window; draw gives the randn values per channel
Synthetic(input, draw) ==
    [c \in Channels |->
        IF c = "BVP" THEN Noisy(input.BVP, 1, 100, draw.BVP, BVP_SAMPLES)
        ELSE IF c = "EDA" THEN Noisy(input.EDA, 2, 100, draw.EDA, WRIST_SAMPLES)
        ELSE IF c = "TEMP" THEN Noisy(input.TEMP, 5, 1000, draw.TEMP, WRIST_SAMPLES)
        ELSE IF c = "ACC_x" THEN Noisy(input.ACC_x, 2, 1, draw.ACC_x, WRIST_SAMPLES)
        ELSE IF c = "ACC_y" THEN Noisy(input.ACC_y, 2, 1, draw.ACC_y, WRIST_SAMPLES)
        ELSE Noisy(input.ACC_z, 2, 1, draw.ACC_z, WRIST_SAMPLES)]

\* except Exception: the classes the handler catches
CatchesOnlyKeyError(e) == e = "KeyError"

Catches(e) == e \in {"KeyError", "ValueError", "ZeroDivisionError", "CatBoostError"}

THRESH == Rat(70, 100)

\* the rest of the try block once the features are extracted: the frame in
\* the column order, the classifier, the threshold and the advice.
\* classifier is what model.predict_proba does for the frame: the
\* probability of class 1, or the exception it raises.
Classify(feats, classifier) ==
    IF \E i \in 1..Len(order) : order[i] \notin Range(ServeColumns(feats))
    THEN [raised |-> "KeyError", value |-> None, features |-> feats]
    ELSE IF classifier.raises # ""
    THEN [raised |-> classifier.raises, value |-> None, features |-> feats]
    ELSE [raised |-> "",
          value |-> [prediction |-> IF ~RLt(classifier.proba, THRESH)
                                    THEN "STRESSED" ELSE "NOT STRESSED",
                     probability |-> classifier.proba,
                     advice |-> generate_advice(feats)],
          features |-> feats]

\* model.predict_proba is outside this repository: for any frame it yields
\* a probability of class 1 or raises
Classifiers ==
    {[proba |-> q, raises |-> ""] :
        q \in {Rat(0, 1), Rat(69, 100), Rat(70, 100), Rat(1, 1)}} \cup
    {[proba |-> Zero, raises |-> "CatBoostError"]}

\* the ways the try block can end once the features are extracted
Outcomes(feats) == {Classify(feats, classifier) : classifier \in Classifiers}

\* the body of the try block: the ways it can end, each the value it
\* returns or the exception it raises
TryBody(input, draw) ==
    IF Override(input)
    THEN {[raised |-> "",
           value |-> [prediction |-> "NOT STRESSED", probability |-> Zero,
                      advice |-> <<"vital signs normal">>],
           features |-> None]}
    ELSE Outcomes(extract_features_window(Synthetic(input, draw)))

\* try / except: what the caller gets for the outcome r of the try block
Handle(r) ==
    IF r.raised = ""
    THEN [outcome |-> [returned |-> r.value], features |-> r.features]
    ELSE IF Catches(r.raised)
    THEN [outcome |-> [returned |-> [error |-> r.raised]], features |-> r.features]
    ELSE [outcome |-> [propagated |-> r.raised], features |-> r.features]

\* predict_stress: the returned result, or the exception that leaves the
\* function, for every way the try block can end
predict_stress(input, draw) == {Handle(r) : r \in TryBody(input, draw)}

\* requests: scalar readings on both sides of the override and of the
\* advice thresholds
Inputs ==
    [BVP : {0}, EDA : {2, 6}, TEMP : {35, 37, 38}, ACC_x : {0, 60, 130},
     ACC_y : {0}, ACC_z : {0}]

\* randn draws: zero-sum periods, in multiples of 1 / coef so that the
\* samples stay integers; the y and z axes draw zeros, which keeps the
\* magnitude an integer
Draws ==
    {[BVP |-> Tup([i \in 1..Len(z) |-> 100 * z[i]]),
      EDA |-> Tup([i \in 1..Len(z) |-> 50 * z[i]]),
      TEMP |-> Tup([i \in 1..Len(z) |-> 200 * z[i]]),
      ACC_x |-> z, ACC_y |-> <<0>>, ACC_z |-> <<0>>] :
        z \in {<<1, 0 - 1>>, <<0, 1, 0, 0 - 1>>}}

\* one request served
Predict ==
    /\ pc = "serving"
    /\ \E input \in Inputs, draw \in Draws :
          \E r \in predict_stress(input, draw) :
              /\ request' = input
              /\ response' = r.outcome
              /\ served' = r.features
    /\ pc' = "responded"
    /\ UNCHANGED <<signals, chest_labels, sr, window_samples, step_samples,
                   n, start, features, exc, visited, origin>>

\* the endpoint is stateless: the server waits for the next request
Await ==
    /\ pc = "responded"
    /\ pc' = "serving"
    /\ request' = None
    /\ response' = None
    /\ served' = None
    /\ UNCHANGED <<signals, chest_labels, sr, window_samples, step_samples,
                   n, start, features, exc, visited, origin>>

InitApi ==
    /\ signals = None
    /\ chest_labels = << >>
    /\ sr = DEFAULT_WRIST_SR
    /\ window_samples = WRIST_SAMPLES
    /\ step_samples = WRIST_SAMPLES
    /\ pc = "serving"
    /\ n = 0
    /\ start = 0
    /\ features = << >>
    /\ exc = None
    /\ visited = << >>
    /\ origin = << >>
    /\ served = None
    /\ request = None
    /\ response = None

NextApi == Predict \/ Await

SpecApi == InitApi /\ [][NextApi]_vars

\* C8: every call of predict_stress returns: either a result with an
\* 'error' field, when something in the try block raised, or a result with
\* 'prediction', 'probability' and 'advice'; nothing propagates.
C8_AlwaysStructured ==
    response # None =>
        /\ DOMAIN response = {"returned"}
        /\ \/ DOMAIN response.returned = {"error"}
           \/ DOMAIN response.returned = {"prediction", "probability", "advice"}

\* C8 witness: a call in which the classifier raised and the caller got an error result,
\* after the features had been extracted
C8_Witness ==
    /\ response # None
    /\ served # None
    /\ DOMAIN response = {"returned"}
    /\ DOMAIN response.returned = {"error"}
    /\ response.returned.error = "CatBoostError"

====
